---- MODULE Spec2Model ----
(***************************************************************************)
(* Event pipeline: HTTP producer -> Kafka topic -> consumer loop -> MS SQL *)
(* store, with a Redis list as dead-letter queue.                          *)
(*                                                                         *)
(* Spec       the consumer loop (cmd/consumer main, processMessage) over   *)
(*            the kafka-go reader of NewConsumer, with process crashes.    *)
(* SpecSink   one run of the same loop while redis comes and goes.         *)
(* SpecOrder  the producer (PublishEvent, LeastBytes balancer) feeding the *)
(*            same consumer loop.                                          *)
(* SpecStore  the Upsert statements of MSSQLStore applied to the tables.   *)
(* SpecInventory  UpsertInventory applied to the inventory table.          *)
(* SpecRace   two database sessions, each running one Upsert batch.        *)
(* SpecParse  Consumer.ParseEvent called on message values.                *)
(* SpecDlq    RedisDLQ.PushMessage and GetMessages called on the lists.    *)
(* SpecFetch  one run of the consumer loop while the broker comes and      *)
(*            goes, with the fairness of the loop.                         *)
(* SpecProduce  POST /produce served by handleProduce and validateEvent.   *)
(* SpecLww    the Upsert statements overwriting rows in every column.      *)
(* SpecRecord PushMessage called with every kind of payload.               *)
(* SpecApi    GET /users/{id} served while orders are stored.              *)
(***************************************************************************)
EXTENDS Integers, Sequences, FiniteSets, TLC

\* ------------------------------------------------------------------ bounds

\* messages written to the topic in one behaviour
MaxMsgs == 2

\* times the consumer process is started (first start included)
MaxStarts == 2

\* ------------------------------------------------------------ JSON values

JStr(s) == [tag |-> "string", s |-> s]

JNum(n) == [tag |-> "number", n |-> n]

JObj(o) == [tag |-> "object", o |-> o]

JNull == [tag |-> "null"]

\* what json.Unmarshal leaves when the bytes are not JSON
Malformed == [tag |-> "malformed"]

IsStr(v) == v.tag = "string"

IsObj(v) == v.tag = "object"

\* m[k] of a Go map[string]interface{}: nil when the key is absent
Get(m, k) == IF k \in DOMAIN m THEN m[k] ELSE JNull

\* --------------------------------------------------------------- time

\* instants; the RFC3339 texts the events carry and the instant each denotes
Times == {1, 2}

Rfc3339 == [t \in {"2025-01-01T00:00:00Z", "2025-01-02T00:00:00Z"} |->
              IF t = "2025-01-01T00:00:00Z" THEN 1 ELSE 2]

\* time.Now() of the processing: one instant, not before any event time
TimeNow == CHOOSE t \in Times : \A u \in Times : u <= t

parseTime(value) ==
    IF IsStr(value) /\ value.s \in DOMAIN Rfc3339 THEN Rfc3339[value.s] ELSE TimeNow

\* ------------------------------------------------- tables (sql/schema.sql)

\* A table is the set of its rows; the PRIMARY KEY makes an INSERT of a key
\* already present fail.

NoError == ""

PkViolation == "Violation of PRIMARY KEY constraint"

FkViolation == "The INSERT statement conflicted with the FOREIGN KEY constraint FK_Orders_Users"

CheckViolation == "The INSERT statement conflicted with the CHECK constraint"

HasKey(rows, col, k) == \E r \in rows : r[col] = k

\* INSERT INTO t VALUES row
Insert(rows, col, row) ==
    IF HasKey(rows, col, row[col])
    THEN [err |-> PkViolation, rows |-> rows]
    ELSE [err |-> NoError, rows |-> rows \cup {row}]

\* an UPDATE branch that leaves the name column out
UpsertUserKeepsName(users, user) ==
    IF HasKey(users, "user_id", user.user_id)
    THEN [err |-> NoError,
          rows |-> {IF r.user_id = user.user_id
                    THEN [r EXCEPT !.email = user.email, !.updated_at = user.updated_at]
                    ELSE r : r \in users}]
    ELSE Insert(users, "user_id", user)

\* IF EXISTS (SELECT 1 FROM users WHERE user_id = ?) UPDATE ... ELSE INSERT ...
UpsertUser(users, user) ==
    IF HasKey(users, "user_id", user.user_id)
    THEN [err |-> NoError,
          rows |-> {IF r.user_id = user.user_id
                    THEN [r EXCEPT !.name = user.name, !.email = user.email,
                                   !.updated_at = user.updated_at]
                    ELSE r : r \in users}]
    ELSE Insert(users, "user_id", user)

\* the Upsert on a table without the foreign key
UpsertOrderNoFk(orders, users, order) ==
    IF HasKey(orders, "order_id", order.order_id)
    THEN [err |-> NoError,
          rows |-> {IF r.order_id = order.order_id
                    THEN [r EXCEPT !.user_id = order.user_id, !.total = order.total,
                                   !.status = order.status,
                                   !.updated_at = order.updated_at]
                    ELSE r : r \in orders}]
    ELSE Insert(orders, "order_id", order)

\* FK_Orders_Users: orders.user_id REFERENCES users(user_id)
UpsertOrder(orders, users, order) ==
    IF ~HasKey(users, "user_id", order.user_id)
    THEN [err |-> FkViolation, rows |-> orders]
    ELSE IF HasKey(orders, "order_id", order.order_id)
    THEN [err |-> NoError,
          rows |-> {IF r.order_id = order.order_id
                    THEN [r EXCEPT !.user_id = order.user_id, !.total = order.total,
                                   !.status = order.status,
                                   !.updated_at = order.updated_at]
                    ELSE r : r \in orders}]
    ELSE Insert(orders, "order_id", order)

UpsertPayment(payments, payment) ==
    IF HasKey(payments, "order_id", payment.order_id)
    THEN [err |-> NoError,
          rows |-> {IF r.order_id = payment.order_id
                    THEN [r EXCEPT !.status = payment.status, !.amount = payment.amount,
                                   !.settled_at = payment.settled_at,
                                   !.updated_at = payment.updated_at]
                    ELSE r : r \in payments}]
    ELSE Insert(payments, "order_id", payment)

\* an UPDATE branch that overwrites the quantity
UpsertInventoryOverwrites(inventory, inv) ==
    IF HasKey(inventory, "sku", inv.sku)
    THEN [err |-> NoError,
          rows |-> {IF r.sku = inv.sku
                    THEN [r EXCEPT !.quantity = inv.quantity,
                                   !.last_adjusted_at = inv.last_adjusted_at]
                    ELSE r : r \in inventory}]
    ELSE Insert(inventory, "sku", inv)

\* an INSERT branch that opens the row at quantity 0
UpsertInventoryInsertsZero(inventory, inv) ==
    IF HasKey(inventory, "sku", inv.sku)
    THEN [err |-> NoError,
          rows |-> {IF r.sku = inv.sku
                    THEN [r EXCEPT !.quantity = r.quantity + inv.quantity,
                                   !.last_adjusted_at = inv.last_adjusted_at]
                    ELSE r : r \in inventory}]
    ELSE Insert(inventory, "sku", [inv EXCEPT !.quantity = 0])

\* UPDATE inventory SET quantity = quantity + ? ... ELSE INSERT (sku, ?, ?)
UpsertInventory(inventory, inv) ==
    IF HasKey(inventory, "sku", inv.sku)
    THEN [err |-> NoError,
          rows |-> {IF r.sku = inv.sku
                    THEN [r EXCEPT !.quantity = r.quantity + inv.quantity,
                                   !.last_adjusted_at = inv.last_adjusted_at]
                    ELSE r : r \in inventory}]
    ELSE Insert(inventory, "sku", inv)

\* rating INT NOT NULL CHECK (rating >= 1 AND rating <= 5)
RatingOk(rating) == rating >= 1 /\ rating <= 5

UpsertProductReview(reviews, review) ==
    IF ~RatingOk(review.rating)
    THEN [err |-> CheckViolation, rows |-> reviews]
    ELSE IF HasKey(reviews, "review_id", review.review_id)
    THEN [err |-> NoError,
          rows |-> {IF r.review_id = review.review_id
                    THEN [r EXCEPT !.product_name = review.product_name,
                                   !.username = review.username,
                                   !.rating = review.rating,
                                   !.remarks = review.remarks,
                                   !.updated_at = review.updated_at]
                    ELSE r : r \in reviews}]
    ELSE Insert(reviews, "review_id", review)

\* ------------------------------------------- consumer: parsing and dispatch

\* A kafka.Message value: its bytes (text) and the document json.Unmarshal
\* reads from them (Malformed when the bytes are not JSON).
Value(text, doc) == [text |-> text, doc |-> doc]

Envelope(eventId, type, data) ==
    JObj([eventId |-> JStr(eventId), type |-> JStr(type),
          timestamp |-> JStr("2025-01-01T00:00:00Z"), data |-> JObj(data)])

\* Consumer.ParseEvent: json.Unmarshal into map[string]interface{}, then the
\* presence of eventId, type and data.  A JSON null unmarshals into a nil map.
ParseEvent(value) ==
    LET doc == value.doc
        event == IF IsObj(doc) THEN doc.o ELSE <<>>
    IN  IF doc.tag \notin {"object", "null"}
        THEN [err |-> "failed to unmarshal event", event |-> <<>>]
        ELSE IF "eventId" \notin DOMAIN event
        THEN [err |-> "eventId field is required", event |-> <<>>]
        ELSE IF "type" \notin DOMAIN event
        THEN [err |-> "type field is required", event |-> <<>>]
        ELSE IF "data" \notin DOMAIN event
        THEN [err |-> "data field is required", event |-> <<>>]
        ELSE [err |-> NoError, event |-> event]

\* parseFloat64 / parseInt: a JSON number decodes as float64; anything else is 0
parseFloat64(value) == IF value.tag = "number" THEN value.n ELSE 0

parseInt(value) == IF value.tag = "number" THEN value.n ELSE 0

\* the database as the record of its tables
Db(u, o, p, i, r) == [users |-> u, orders |-> o, payments |-> p, inventory |-> i, reviews |-> r]

Outcome(panic, err, db) == [panic |-> panic, err |-> err, db |-> db]

\* x.(string) on every listed field of data: a missing or non-string field panics
AllStr(data, fields) == \A f \in fields : IsStr(Get(data, f))

\* processEventByType: the unchecked type assertions panic, the default case
\* and a failed Upsert return an error.
processEventByType(event, db) ==
    IF ~IsStr(event["type"]) \/ ~IsObj(event["data"]) THEN Outcome(TRUE, NoError, db)
    ELSE LET eventType == event["type"].s
             data == event["data"].o
    IN  CASE eventType = "UserCreated" ->
               IF ~AllStr(data, {"userId", "name", "email"}) THEN Outcome(TRUE, NoError, db)
               ELSE LET res == UpsertUser(db.users,
                                  [user_id |-> data["userId"].s, name |-> data["name"].s,
                                   email |-> data["email"].s,
                                   created_at |-> parseTime(Get(data, "createdAt")),
                                   updated_at |-> TimeNow])
                    IN  Outcome(FALSE, res.err, [db EXCEPT !.users = res.rows])
          [] eventType = "OrderPlaced" ->
               IF ~AllStr(data, {"orderId", "userId"}) THEN Outcome(TRUE, NoError, db)
               ELSE LET res == UpsertOrder(db.orders, db.users,
                                  [order_id |-> data["orderId"].s, user_id |-> data["userId"].s,
                                   total |-> parseFloat64(Get(data, "total")),
                                   status |-> "placed",
                                   created_at |-> parseTime(Get(data, "createdAt")),
                                   updated_at |-> TimeNow])
                    IN  Outcome(FALSE, res.err, [db EXCEPT !.orders = res.rows])
          [] eventType = "PaymentSettled" ->
               IF ~AllStr(data, {"orderId", "status"}) THEN Outcome(TRUE, NoError, db)
               ELSE LET res == UpsertPayment(db.payments,
                                  [order_id |-> data["orderId"].s, status |-> data["status"].s,
                                   amount |-> parseFloat64(Get(data, "amount")),
                                   settled_at |-> parseTime(Get(data, "settledAt")),
                                   updated_at |-> TimeNow])
                    IN  Outcome(FALSE, res.err, [db EXCEPT !.payments = res.rows])
          [] eventType = "InventoryAdjusted" ->
               IF ~AllStr(data, {"sku"}) THEN Outcome(TRUE, NoError, db)
               ELSE LET res == UpsertInventory(db.inventory,
                                  [sku |-> data["sku"].s,
                                   quantity |-> parseInt(Get(data, "delta")),
                                   last_adjusted_at |-> parseTime(Get(data, "adjustedAt"))])
                    IN  Outcome(FALSE, res.err, [db EXCEPT !.inventory = res.rows])
          [] eventType = "ProductReview" ->
               IF ~AllStr(data, {"reviewId", "productName", "username", "remarks"})
               THEN Outcome(TRUE, NoError, db)
               ELSE LET res == UpsertProductReview(db.reviews,
                                  [review_id |-> data["reviewId"].s,
                                   product_name |-> data["productName"].s,
                                   username |-> data["username"].s,
                                   rating |-> parseInt(Get(data, "rating")),
                                   remarks |-> data["remarks"].s,
                                   created_at |-> parseTime(Get(data, "createdAt")),
                                   updated_at |-> TimeNow])
                    IN  Outcome(FALSE, res.err, [db EXCEPT !.reviews = res.rows])
          [] OTHER -> Outcome(FALSE, "unknown event type", db)

\* ------------------------------------------------------- dead-letter queue

\* an extractEventID that has no word for a payload without eventId
extractEventIDOrEmpty(payload) ==
    IF IsObj(payload) /\ IsStr(Get(payload.o, "eventId"))
    THEN payload.o["eventId"].s
    ELSE ""

\* extractEventID (dlq): the payload's eventId when the payload is a map whose
\* eventId is a string, "unknown" otherwise
extractEventID(payload) ==
    IF IsObj(payload) /\ IsStr(Get(payload.o, "eventId"))
    THEN payload.o["eventId"].s
    ELSE "unknown"

\* the record RedisDLQ.PushMessage marshals
DlqMsg(topic, partition, offset, payload, errorMsg) ==
    [eventId |-> extractEventID(payload), topic |-> topic, partition |-> partition,
     offset |-> offset, payload |-> payload, error |-> errorMsg, failedAt |-> TimeNow]

\* Go strings hold any bytes; the two that are not valid UTF-8 here, and what
\* json.Marshal writes for them: each invalid byte becomes U+FFFD
InvalidUTF8 == [s \in {"<FF>", "{<FE>"} |-> IF s = "<FF>" THEN "<EFBFBD>" ELSE "{<EFBFBD>"]

ToValidUTF8(s) == IF s \in DOMAIN InvalidUTF8 THEN InvalidUTF8[s] ELSE s

RECURSIVE Marshal(_)
\* json.Marshal of a value, given as the document the bytes written denote:
\* strings are coerced to valid UTF-8, maps are written member by member
Marshal(v) ==
    CASE v.tag = "string" -> JStr(ToValidUTF8(v.s))
      [] v.tag = "object" -> JObj([k \in DOMAIN v.o |-> Marshal(v.o[k])])
      [] OTHER -> v

\* a Go value json.Marshal has no encoding for (a channel, a func, a NaN)
Unmarshalable == [tag |-> "chan"]

RECURSIVE MarshalFails(_)
\* json.Marshal returns an error: the value, or a member of it, has no encoding
MarshalFails(v) ==
    CASE v.tag = "chan" -> TRUE
      [] v.tag = "object" -> \E k \in DOMAIN v.o : MarshalFails(v.o[k])
      [] OTHER -> FALSE

\* json.Marshal(dlqMsg)
MarshalDlqMsg(msg) ==
    [msg EXCEPT !.eventId = ToValidUTF8(@), !.payload = Marshal(@), !.error = ToValidUTF8(@)]

\* RPUSH: the new element becomes the tail of the list
RPush(list, x) == Append(list, x)

\* LPUSH key value: the new element becomes the head of the list
LPush(list, x) == <<x>> \o list

\* LRANGE key start stop: zero-based, stop included, negative indices count
\* from the tail, out-of-range indices are clipped
LRange(list, start, stop) ==
    LET n == Len(list)
        from == IF start < 0 THEN (IF n + start < 0 THEN 0 ELSE n + start) ELSE start
        to == IF stop < 0 THEN n + stop ELSE (IF stop >= n THEN n - 1 ELSE stop)
    IN  IF from > to \/ from >= n THEN <<>> ELSE SubSeq(list, from + 1, to + 1)

\* ------------------------------------------------------------------ state

Partitions == {0, 1}

Topic == "events"

\* no offset committed for the group / nothing queued in the reader
NoOffset == 0 - 1

\* no message in flight
NoMsg == <<>>

VARIABLES
    log,              \* broker: partition -> sequence of message values
    brokerCommitted,  \* broker: partition -> the group's committed offset, or NoOffset
    proc,             \* consumer process: "stopped", "running", "killed", "panicked"
    starts,           \* times the consumer process was started
    pc,               \* where the loop of main stands
    cur,              \* the message in flight, <<partition, offset>>, or NoMsg
    err,              \* err of processMessage
    readerPos,        \* reader: partition -> next offset to fetch
    pending,          \* reader: partition -> offset queued for the commit loop, or NoOffset
    dlq,              \* redis: key dlq:<topic> -> list, head first
    redisUp,          \* redis reachable
    db,               \* MS SQL: the tables
    lbBytes,          \* writer: the LeastBytes counters, partition -> bytes written
    published,        \* history: the events PublishEvent wrote, in publish order
    applied,          \* history: the last Upsert called on the store and what it met
    brokerUp,         \* broker reachable
    readErrors,       \* history: times consumer.ReadMessage returned an error
    call,             \* history: the last call of a function and what it returned
    ledger,           \* history: the UpsertInventory calls, in call order
    sess,             \* store: the statements in progress of each database session
    pushLog,          \* history: the records PushMessage stored, in push order
    hist              \* history: delivery <<partition, offset, run>> -> what happened to it

vars == <<log, brokerCommitted, proc, starts, pc, cur, err, readerPos, pending,
          dlq, redisUp, db, lbBytes, published, applied, brokerUp, readErrors, call,
          ledger, sess, pushLog, hist>>

brokerVars == <<log, brokerCommitted>>

loopVars == <<proc, starts, pc, cur, err, readerPos, pending>>

producerVars == <<lbBytes, published>>

\* what the calls outside the consumer loop record
auxVars == <<call, ledger, sess, pushLog>>

sideVars == <<lbBytes, published, applied, brokerUp, readErrors, auxVars>>

\* no function called yet
NoCall == [fn |-> "", arg |-> <<>>, out |-> <<>>]

\* no statement in progress in any session
Sessions == {1, 2}

NoSession == [pc |-> "idle", table |-> "", entity |-> <<>>, exists |-> FALSE, err |-> ""]

\* the state outside the consumer loop, the producer and the tables
Quiet ==
    /\ brokerUp = TRUE
    /\ readErrors = 0
    /\ call = NoCall
    /\ ledger = <<>>
    /\ sess = [s \in Sessions |-> NoSession]
    /\ pushLog = <<>>

\* no Upsert called yet; target is the table a behaviour of SpecStore exercises
NoneApplied(target) ==
    [target |-> target, table |-> "", entity |-> <<>>, err |-> "", times |-> 0,
     created |-> {}, changed |-> FALSE]

EmptyDb == Db({}, {}, {}, {}, {})

Msg(m) == log[m[1]][m[2] + 1]

Delivery(m) == <<m[1], m[2], starts>>

TotalMsgs == Len(log[0]) + Len(log[1])

\* what is recorded of one delivery
NewDelivery(flushed) ==
    [failure |-> "", sink |-> FALSE, attempts |-> 0, pushed |-> 0, persisted |-> FALSE,
     commits |-> 0, fin |-> "no", flushedBefore |-> flushed]

\* offsetStash.merge of the reader: the greatest offset queued per partition
Stash(queue, p, offset) ==
    [queue EXCEPT ![p] = IF @ = NoOffset \/ offset > @ THEN offset ELSE @]

\* ------------------------------------------------------------ the topic

\* what a writer may leave in the topic: bytes that are no JSON, a UserCreated
\* event, one without its name, an OrderPlaced event and one of no known type
LogValues ==
    { Value("not json", Malformed),
      Value("{e1 UserCreated u1 A}",
            Envelope("e1", "UserCreated",
                     [userId |-> JStr("u1"), name |-> JStr("A"), email |-> JStr("a@x.com"),
                      createdAt |-> JStr("2025-01-01T00:00:00Z")])),
      Value("{e2 UserCreated u1}",
            Envelope("e2", "UserCreated",
                     [userId |-> JStr("u1"), email |-> JStr("a@x.com"),
                      createdAt |-> JStr("2025-01-01T00:00:00Z")])),
      Value("{e3 OrderPlaced o1 u1 10}",
            Envelope("e3", "OrderPlaced",
                     [orderId |-> JStr("o1"), userId |-> JStr("u1"), total |-> JNum(10),
                      createdAt |-> JStr("2025-01-02T00:00:00Z")])),
      Value("{e4 Refund o1}",
            Envelope("e4", "Refund", [orderId |-> JStr("o1")])) }

\* any writer appends a message to a partition of the topic
Produce(p, v) ==
    /\ TotalMsgs < MaxMsgs
    /\ log' = [log EXCEPT ![p] = Append(@, v)]
    /\ UNCHANGED <<brokerCommitted, loopVars, dlq, redisUp, db, sideVars, hist>>

\* ------------------------------------------------------ the consumer loop

\* a reader that ignores the committed offset and starts at the first offset
StartPositionFirst(committed, partitionLog) == 0

\* Where a reader of the group starts in a partition: the committed offset, or,
\* the group having none, StartOffset = kafka.LastOffset: the end of the log.
StartPosition(committed, partitionLog) ==
    IF committed # NoOffset THEN committed ELSE Len(partitionLog)

\* the process starts (main): a new reader joins the group; what the previous
\* reader had queued and not flushed is gone with it
Start ==
    /\ proc # "running"
    /\ starts < MaxStarts
    /\ proc' = "running"
    /\ starts' = starts + 1
    /\ pc' = "fetch"
    /\ cur' = NoMsg
    /\ err' = NoError
    /\ readerPos' = [p \in Partitions |-> StartPosition(brokerCommitted[p], log[p])]
    /\ pending' = [p \in Partitions |-> NoOffset]
    /\ UNCHANGED <<brokerVars, dlq, redisUp, db, sideVars, hist>>

\* kafka.Reader.ReadMessage with a GroupID set: FetchMessage, then
\* CommitMessages of the message fetched (queued, CommitInterval being > 0)
ReadCommits(queue, p, offset) == Stash(queue, p, offset + 1)

\* who may fetch: the loop of main is at consumer.ReadMessage
AtRead == pc = "fetch"

\* Consumer.ReadMessage returns the next message of some assigned partition
Fetch ==
    /\ proc = "running"
    /\ AtRead
    /\ brokerUp
    /\ \E p \in Partitions :
         /\ readerPos[p] < Len(log[p])
         /\ LET o == readerPos[p]
            IN  /\ cur' = <<p, o>>
                /\ readerPos' = [readerPos EXCEPT ![p] = o + 1]
                /\ pending' = ReadCommits(pending, p, o)
                /\ hist' = hist @@ (<<p, o, starts>> :>
                             NewDelivery(brokerCommitted[p] # NoOffset /\ o < brokerCommitted[p]))
    /\ pc' = "process"
    /\ UNCHANGED <<brokerVars, proc, starts, err, dlq, redisUp, db, sideVars>>

\* the success path returning without the commit of line 206
AfterSuccessNoCommit == "fetch"

\* processMessage after a successful processEventByType: on to the commit of line 206
AfterSuccess == "commitOk"

\* processMessage up to the outcome of ParseEvent and processEventByType
Process ==
    /\ proc = "running"
    /\ pc = "process"
    /\ LET d == Delivery(cur)
           parsed == ParseEvent(Msg(cur))
           out == processEventByType(parsed.event, db)
       IN  IF parsed.err # NoError
           THEN /\ err' = parsed.err
                /\ pc' = "dlq"
                /\ hist' = [hist EXCEPT ![d].failure = "parse"]
                /\ UNCHANGED <<proc, db>>
           ELSE IF out.panic
           THEN /\ proc' = "panicked"
                /\ hist' = [hist EXCEPT ![d].failure = "validation", ![d].sink = redisUp,
                                        ![d].fin = "panicked"]
                /\ UNCHANGED <<pc, err, db>>
           ELSE IF out.err # NoError
           THEN /\ err' = out.err
                /\ pc' = "dlq"
                /\ db' = out.db
                /\ hist' = [hist EXCEPT ![d].failure =
                              IF out.err = "unknown event type" THEN "dispatch"
                              ELSE "persistence"]
                /\ UNCHANGED proc
           ELSE /\ db' = out.db
                /\ pc' = AfterSuccess
                /\ hist' = [hist EXCEPT ![d].persisted = TRUE,
                                        ![d].fin = IF AfterSuccess = "fetch"
                                                   THEN "returned" ELSE @]
                /\ UNCHANGED <<proc, err>>
    /\ cur' = IF pc' = "fetch" THEN NoMsg ELSE cur
    /\ UNCHANGED <<brokerVars, starts, readerPos, pending, dlq, redisUp, sideVars>>

\* a push that stores every record under the one key dlq:events
PushMessageOneKey(queue, up, topic, partition, offset, payload, errorMsg) ==
    IF up
    THEN [err |-> NoError,
          dlq |-> [queue EXCEPT ![Topic] =
                     LPush(@, MarshalDlqMsg(DlqMsg(topic, partition, offset, payload, errorMsg)))]]
    ELSE [err |-> "failed to push to DLQ", dlq |-> queue]

\* a push that goes on after json.Marshal returned an error
PushMessageIgnoresMarshalError(queue, up, topic, partition, offset, payload, errorMsg) ==
    IF up
    THEN [err |-> NoError,
          dlq |-> [queue EXCEPT ![topic] =
                     LPush(@, MarshalDlqMsg(DlqMsg(topic, partition, offset, payload, errorMsg)))]]
    ELSE [err |-> "failed to push to DLQ", dlq |-> queue]

\* RedisDLQ.PushMessage: marshal the record and LPUSH it under dlq:<topic>
PushMessage(queue, up, topic, partition, offset, payload, errorMsg) ==
    IF MarshalFails(payload)
    THEN [err |-> "failed to marshal DLQ message", dlq |-> queue]
    ELSE IF up
    THEN [err |-> NoError,
          dlq |-> [queue EXCEPT ![topic] =
                     LPush(@, MarshalDlqMsg(DlqMsg(topic, partition, offset, payload, errorMsg)))]]
    ELSE [err |-> "failed to push to DLQ", dlq |-> queue]

\* RedisDLQ.GetMessages: LRANGE of the list under dlq:<topic>; a key that was
\* never pushed to is the empty list
GetMessages(queue, up, topic, start, stop) ==
    IF up
    THEN [err |-> NoError,
          msgs |-> LRange(IF topic \in DOMAIN queue THEN queue[topic] ELSE <<>>, start, stop)]
    ELSE [err |-> "redis: connection refused", msgs |-> <<>>]

\* a failed push returned to the loop instead of being logged
AfterPushReturnsOnError(dlqErr) == IF dlqErr # NoError THEN "fetch" ELSE "commitErr"

\* processMessage after dlq.PushMessage: dlqErr is logged, then the commit
AfterPush(dlqErr) == "commitErr"

\* processMessage, the two failure branches: push to the DLQ
PushDLQ ==
    /\ proc = "running"
    /\ pc = "dlq"
    /\ LET d == Delivery(cur)
           parsed == ParseEvent(Msg(cur))
           payload == IF parsed.err # NoError THEN JStr(Msg(cur).text)
                      ELSE JObj(parsed.event)
           res == PushMessage(dlq, redisUp, Topic, cur[1], cur[2], payload, err)
           next == AfterPush(res.err)
       IN  /\ dlq' = res.dlq
           /\ pc' = next
           /\ cur' = IF next = "fetch" THEN NoMsg ELSE cur
           /\ err' = IF next = "fetch" THEN NoError ELSE err
           /\ hist' = [hist EXCEPT ![d].sink = redisUp,
                                   ![d].attempts = @ + 1,
                                   ![d].pushed = IF res.err = NoError THEN @ + 1 ELSE @,
                                   ![d].fin = IF next = "fetch" THEN "returned" ELSE @]
    /\ UNCHANGED <<brokerVars, proc, starts, readerPos, pending, redisUp, db, sideVars>>

\* the failure branch without its return: control reaches the commit of line 206
AfterCommitErrFallsThrough == "commitOk"

\* processMessage after the commit of a failure branch: return err
AfterCommitErr == "fetch"

\* Consumer.CommitMessage: reader.CommitMessages queues the offset after the
\* message's for the commit loop and returns nil
Commit ==
    /\ proc = "running"
    /\ pc \in {"commitErr", "commitOk"}
    /\ LET d == Delivery(cur)
           next == IF pc = "commitErr" THEN AfterCommitErr ELSE "fetch"
       IN  /\ pending' = Stash(pending, cur[1], cur[2] + 1)
           /\ pc' = next
           /\ cur' = IF next = "fetch" THEN NoMsg ELSE cur
           /\ err' = IF next = "fetch" THEN NoError ELSE err
           /\ hist' = [hist EXCEPT ![d].commits = @ + 1,
                                   ![d].fin = IF next = "fetch" THEN "returned" ELSE @]
    /\ UNCHANGED <<brokerVars, proc, starts, readerPos, dlq, redisUp, db, sideVars>>

\* the reader's commit loop, every CommitInterval: the queued offsets go to
\* the broker
CommitLoop ==
    /\ proc = "running"
    /\ brokerUp
    /\ \E p \in Partitions : pending[p] # NoOffset
    /\ brokerCommitted' = [p \in Partitions |->
                             IF pending[p] # NoOffset THEN pending[p]
                             ELSE brokerCommitted[p]]
    /\ pending' = [p \in Partitions |-> NoOffset]
    /\ UNCHANGED <<log, proc, starts, pc, cur, err, readerPos, dlq, redisUp, db,
                   sideVars, hist>>

\* the process is killed
Kill ==
    /\ proc = "running"
    /\ proc' = "killed"
    /\ UNCHANGED <<brokerVars, starts, pc, cur, err, readerPos, pending, dlq, redisUp,
                   db, sideVars, hist>>

\* redis goes away or comes back
SinkToggle ==
    /\ redisUp' = ~redisUp
    /\ UNCHANGED <<brokerVars, loopVars, dlq, db, sideVars, hist>>

Init ==
    /\ log = [p \in Partitions |-> <<>>]
    /\ brokerCommitted = [p \in Partitions |-> NoOffset]
    /\ proc = "stopped"
    /\ starts = 0
    /\ pc = "fetch"
    /\ cur = NoMsg
    /\ err = NoError
    /\ readerPos = [p \in Partitions |-> 0]
    /\ pending = [p \in Partitions |-> NoOffset]
    /\ dlq = [t \in {Topic} |-> <<>>]
    /\ redisUp = TRUE
    /\ db = EmptyDb
    /\ lbBytes = [p \in Partitions |-> 0]
    /\ published = <<>>
    /\ applied = NoneApplied("")
    /\ Quiet
    /\ hist = <<>>

\* the messages of Spec: one for each way processMessage ends (success, an
\* error handed to the DLQ, a panic)
CrashValues == {v \in LogValues : v.text \in {"not json", "{e1 UserCreated u1 A}", "{e2 UserCreated u1}"}}

Next ==
    \/ \E p \in Partitions, v \in CrashValues : Produce(p, v)
    \/ Start
    \/ Fetch
    \/ Process
    \/ PushDLQ
    \/ Commit
    \/ CommitLoop
    \/ Kill

\* the consumer loop with process crashes and restarts; redis stays reachable
Spec == Init /\ [][Next]_vars

\* the consumer has joined the group on the empty topic
InitRunning ==
    /\ log = [p \in Partitions |-> <<>>]
    /\ brokerCommitted = [p \in Partitions |-> NoOffset]
    /\ proc = "running"
    /\ starts = 1
    /\ pc = "fetch"
    /\ cur = NoMsg
    /\ err = NoError
    /\ readerPos = [p \in Partitions |-> 0]
    /\ pending = [p \in Partitions |-> NoOffset]
    /\ dlq = [t \in {Topic} |-> <<>>]
    /\ redisUp = TRUE
    /\ db = EmptyDb
    /\ lbBytes = [p \in Partitions |-> 0]
    /\ published = <<>>
    /\ applied = NoneApplied("")
    /\ Quiet
    /\ hist = <<>>

NextSink ==
    \/ \E p \in Partitions, v \in LogValues : Produce(p, v)
    \/ Fetch
    \/ Process
    \/ PushDLQ
    \/ Commit
    \/ CommitLoop
    \/ SinkToggle

\* one run of the consumer loop while redis comes and goes
SpecSink == InitRunning /\ [][NextSink]_vars

\* ------------------------------------------------------------ the producer

\* Producer.extractKey: the business identifier of the event's type
extractKey(event) ==
    IF ~IsObj(event) THEN [err |-> "event is not a map", key |-> ""]
    ELSE IF ~IsStr(Get(event.o, "type")) THEN [err |-> "event type is not a string", key |-> ""]
    ELSE IF ~IsObj(Get(event.o, "data")) THEN [err |-> "event data is not a map", key |-> ""]
    ELSE LET eventType == event.o["type"].s
             data == event.o["data"].o
             field == CASE eventType = "UserCreated" -> "userId"
                        [] eventType = "OrderPlaced" -> "orderId"
                        [] eventType = "PaymentSettled" -> "orderId"
                        [] eventType = "InventoryAdjusted" -> "sku"
                        [] eventType = "ProductReview" -> "reviewId"
                        [] OTHER -> ""
         IN  IF field = "" THEN [err |-> "unknown event type", key |-> ""]
             ELSE IF ~IsStr(Get(data, field)) THEN [err |-> field \o " not found", key |-> ""]
             ELSE [err |-> NoError, key |-> data[field].s]

\* kafka.LeastBytes.Balance: the first partition with the fewest bytes written
\* to it; the key of the message plays no part
LeastBytes(counters, key) ==
    CHOOSE p \in Partitions :
        \A q \in Partitions : counters[p] < counters[q] \/ (counters[p] = counters[q] /\ p <= q)

\* Producer.PublishEvent: marshal, extract the key, write the message to the
\* partition the balancer picks
PublishEvent(v) ==
    /\ TotalMsgs < MaxMsgs
    /\ LET k == extractKey(v.doc)
           p == LeastBytes(lbBytes, k.key)
       IN  /\ k.err = NoError
           /\ log' = [log EXCEPT ![p] = Append(@, v)]
           /\ lbBytes' = [lbBytes EXCEPT ![p] = @ + Len(k.key) + Len(v.text)]
           /\ published' = Append(published,
                                  [key |-> k.key, partition |-> p, offset |-> Len(log[p]),
                                   value |-> v])
    /\ UNCHANGED <<brokerCommitted, loopVars, dlq, redisUp, db, applied, brokerUp,
                   readErrors, auxVars, hist>>

\* the events published in SpecOrder: user u1 created as A, the same user as B,
\* an order of u1
OrderValues ==
    { v \in LogValues : v.text \in {"{e1 UserCreated u1 A}", "{e3 OrderPlaced o1 u1 10}"} }
    \cup
    { Value("{e5 UserCreated u1 B}",
            Envelope("e5", "UserCreated",
                     [userId |-> JStr("u1"), name |-> JStr("B"), email |-> JStr("a@x.com"),
                      createdAt |-> JStr("2025-01-01T00:00:00Z")])) }

NextOrder ==
    \/ \E v \in OrderValues : PublishEvent(v)
    \/ Fetch
    \/ Process
    \/ PushDLQ
    \/ Commit
    \/ CommitLoop

\* the producer feeding one run of the consumer loop
SpecOrder == InitRunning /\ [][NextOrder]_vars

\* ---------------------------------------------------------------- the store

\* the tables SpecStore exercises, one per behaviour (orders with users, for
\* the foreign key)
Targets == {"users", "orders", "payments", "reviews"}

UserRows(target) ==
    IF target = "users"
    THEN [user_id : {"u1", "u2"}, name : {"A", "B"}, email : {"a@x.com"},
          created_at : Times, updated_at : Times]
    ELSE [user_id : {"u1", "u2"}, name : {"A"}, email : {"a@x.com"},
          created_at : {TimeNow}, updated_at : {TimeNow}]

OrderRows ==
    [order_id : {"o1", "o2"}, user_id : {"u1", "u2"}, total : {10}, status : {"placed"},
     created_at : Times, updated_at : Times]

PaymentRows ==
    [order_id : {"o1", "o2"}, status : {"pending", "settled"}, amount : {10},
     settled_at : Times, updated_at : Times]

ReviewRows ==
    [review_id : {"r1", "r2"}, product_name : {"p"}, username : {"A"}, rating : {1, 5, 6},
     remarks : {"ok"}, created_at : Times, updated_at : Times]

\* what is recorded of a call: the entity, the error returned, whether the
\* same entity was the previous call's too, the created_at of the row the call
\* met, whether a repeated call changed the table
Applied(table, col, entity, rows, res) ==
    LET again == applied.table = table /\ applied.entity = entity
    IN  [target |-> applied.target, table |-> table, entity |-> entity, err |-> res.err,
         times |-> IF again THEN 2 ELSE 1,
         created |-> {r.created_at : r \in {x \in rows : x[col] = entity[col]
                                                       /\ "created_at" \in DOMAIN x}},
         changed |-> again /\ res.rows # rows]

StoreUnchanged ==
    UNCHANGED <<brokerVars, loopVars, dlq, redisUp, producerVars, brokerUp, readErrors,
                auxVars, hist>>

ApplyUser(user) ==
    /\ applied.target \in {"users", "orders"}
    /\ LET res == UpsertUser(db.users, user)
       IN  /\ db' = [db EXCEPT !.users = res.rows]
           /\ applied' = Applied("users", "user_id", user, db.users, res)
    /\ StoreUnchanged

ApplyOrder(order) ==
    /\ applied.target = "orders"
    /\ LET res == UpsertOrder(db.orders, db.users, order)
       IN  /\ db' = [db EXCEPT !.orders = res.rows]
           /\ applied' = Applied("orders", "order_id", order, db.orders, res)
    /\ StoreUnchanged

ApplyPayment(payment) ==
    /\ applied.target = "payments"
    /\ LET res == UpsertPayment(db.payments, payment)
       IN  /\ db' = [db EXCEPT !.payments = res.rows]
           /\ applied' = Applied("payments", "order_id", payment, db.payments, res)
    /\ StoreUnchanged

ApplyReview(review) ==
    /\ applied.target = "reviews"
    /\ LET res == UpsertProductReview(db.reviews, review)
       IN  /\ db' = [db EXCEPT !.reviews = res.rows]
           /\ applied' = Applied("reviews", "review_id", review, db.reviews, res)
    /\ StoreUnchanged

InitStore ==
    /\ log = [p \in Partitions |-> <<>>]
    /\ brokerCommitted = [p \in Partitions |-> NoOffset]
    /\ proc = "stopped"
    /\ starts = 0
    /\ pc = "fetch"
    /\ cur = NoMsg
    /\ err = NoError
    /\ readerPos = [p \in Partitions |-> 0]
    /\ pending = [p \in Partitions |-> NoOffset]
    /\ dlq = [t \in {Topic} |-> <<>>]
    /\ redisUp = TRUE
    /\ db = EmptyDb
    /\ lbBytes = [p \in Partitions |-> 0]
    /\ published = <<>>
    /\ applied \in {NoneApplied(t) : t \in Targets}
    /\ Quiet
    /\ hist = <<>>

NextStore ==
    \/ \E user \in UserRows(applied.target) : ApplyUser(user)
    \/ \E order \in OrderRows : ApplyOrder(order)
    \/ \E payment \in PaymentRows : ApplyPayment(payment)
    \/ \E review \in ReviewRows : ApplyReview(review)

\* the Upsert statements called one after another on the tables
SpecStore == InitStore /\ [][NextStore]_vars

\* ------------------------------------------------------------ the inventory

\* UpsertInventory calls in one behaviour
MaxAdjust == 3

\* the Inventory records processEventByType builds: quantity is the delta
InventoryRows == [sku : {"S1", "S2"}, quantity : {5, 0 - 2}, last_adjusted_at : Times]

\* a table that holds a row for S1 already
StockedInventory == {[sku |-> "S1", quantity |-> 10, last_adjusted_at |-> TimeNow]}

\* SELECT quantity FROM inventory WHERE sku = ?, 0 when there is no row
QuantityOf(inventory, sku) ==
    IF HasKey(inventory, "sku", sku)
    THEN (CHOOSE r \in inventory : r.sku = sku).quantity
    ELSE 0

\* one call of MSSQLStore.UpsertInventory
ApplyInventory(inv) ==
    /\ Len(ledger) < MaxAdjust
    /\ LET res == UpsertInventory(db.inventory, inv)
       IN  /\ db' = [db EXCEPT !.inventory = res.rows]
           /\ ledger' = Append(ledger,
                               [inv |-> inv, err |-> res.err,
                                met |-> HasKey(db.inventory, "sku", inv.sku),
                                before |-> QuantityOf(db.inventory, inv.sku),
                                after |-> QuantityOf(res.rows, inv.sku)])
    /\ UNCHANGED <<brokerVars, loopVars, dlq, redisUp, producerVars, applied, brokerUp,
                   readErrors, call, sess, pushLog, hist>>

InitInventory ==
    /\ log = [p \in Partitions |-> <<>>]
    /\ brokerCommitted = [p \in Partitions |-> NoOffset]
    /\ proc = "stopped"
    /\ starts = 0
    /\ pc = "fetch"
    /\ cur = NoMsg
    /\ err = NoError
    /\ readerPos = [p \in Partitions |-> 0]
    /\ pending = [p \in Partitions |-> NoOffset]
    /\ dlq = [t \in {Topic} |-> <<>>]
    /\ redisUp = TRUE
    /\ db \in {EmptyDb, [EmptyDb EXCEPT !.inventory = StockedInventory]}
    /\ lbBytes = [p \in Partitions |-> 0]
    /\ published = <<>>
    /\ applied = NoneApplied("inventory")
    /\ Quiet
    /\ hist = <<>>

NextInventory == \E inv \in InventoryRows : ApplyInventory(inv)

\* UpsertInventory called one time after another on the inventory table
SpecInventory == InitInventory /\ [][NextInventory]_vars

\* ------------------------------------------- the store, concurrent sessions

\* ExecContext sends the batch IF EXISTS (SELECT ...) UPDATE ... ELSE INSERT ...
\* outside any transaction and without lock hints: each statement is atomic,
\* the batch is not, and statements of two pooled connections interleave.

RaceUsers ==
    [user_id : {"u1", "u2"}, name : {"A", "B"}, email : {"a@x.com"},
     created_at : {TimeNow}, updated_at : {TimeNow}]

RaceInventory == [sku : {"S1"}, quantity : {5, 0 - 2}, last_adjusted_at : {TimeNow}]

RaceKey == [users |-> "user_id", inventory |-> "sku"]

\* the session runs the existence check of the batch
RaceCheck(s, table, entity) ==
    /\ sess[s].pc = "idle"
    /\ sess' = [sess EXCEPT ![s] = [pc |-> "checked", table |-> table, entity |-> entity,
                                    exists |-> HasKey(db[table], RaceKey[table],
                                                      entity[RaceKey[table]]),
                                    err |-> NoError]]
    /\ UNCHANGED <<brokerVars, loopVars, dlq, redisUp, db, producerVars, applied, brokerUp,
                   readErrors, call, ledger, pushLog, hist>>

\* the branch of the batch the check selected: rows are never deleted, so a
\* row found by the check is still there and the Upsert statement updates it
RaceBranch(table, rows, entity, exists) ==
    IF ~exists THEN Insert(rows, RaceKey[table], entity)
    ELSE IF table = "users" THEN UpsertUser(rows, entity)
    ELSE UpsertInventory(rows, entity)

\* the session runs the UPDATE or the INSERT and ExecContext returns
RaceWrite(s) ==
    /\ sess[s].pc = "checked"
    /\ LET table == sess[s].table
           res == RaceBranch(table, db[table], sess[s].entity, sess[s].exists)
       IN  /\ db' = [db EXCEPT ![table] = res.rows]
           /\ sess' = [sess EXCEPT ![s].pc = "done", ![s].err = res.err]
    /\ UNCHANGED <<brokerVars, loopVars, dlq, redisUp, producerVars, applied, brokerUp,
                   readErrors, call, ledger, pushLog, hist>>

InitRace ==
    /\ log = [p \in Partitions |-> <<>>]
    /\ brokerCommitted = [p \in Partitions |-> NoOffset]
    /\ proc = "stopped"
    /\ starts = 0
    /\ pc = "fetch"
    /\ cur = NoMsg
    /\ err = NoError
    /\ readerPos = [p \in Partitions |-> 0]
    /\ pending = [p \in Partitions |-> NoOffset]
    /\ dlq = [t \in {Topic} |-> <<>>]
    /\ redisUp = TRUE
    /\ db = EmptyDb
    /\ lbBytes = [p \in Partitions |-> 0]
    /\ published = <<>>
    /\ applied = NoneApplied("")
    /\ Quiet
    /\ hist = <<>>

NextRace ==
    \/ \E s \in Sessions, user \in RaceUsers : RaceCheck(s, "users", user)
    \/ \E s \in Sessions, inv \in RaceInventory : RaceCheck(s, "inventory", inv)
    \/ \E s \in Sessions : RaceWrite(s)

\* two pooled connections, each running one Upsert batch
SpecRace == InitRace /\ [][NextRace]_vars

\* ------------------------------------------------------ ParseEvent, called

EnvelopeFields == {"eventId", "type", "timestamp", "data"}

\* message values: bytes that are no JSON, JSON that is no object, and objects
\* holding any of the four top-level fields with a string, a number, an object
\* or null as value
ParseInputs ==
    { Value("not json", Malformed), Value("null", JNull), Value("5", JNum(5)),
      Value("\"x\"", JStr("x")) }
    \cup
    { Value("{...}", JObj(o)) :
        o \in UNION { [S -> {JStr("x"), JNum(1), JObj(<<>>), JNull}] : S \in SUBSET EnvelopeFields } }

\* consumer.ParseEvent(message) called on a message value
CallParseEvent(v) ==
    /\ call' = [fn |-> "ParseEvent", arg |-> v, out |-> ParseEvent(v)]
    /\ UNCHANGED <<brokerVars, loopVars, dlq, redisUp, db, producerVars, applied, brokerUp,
                   readErrors, ledger, sess, pushLog, hist>>

NextParse == \E v \in ParseInputs : CallParseEvent(v)

\* ParseEvent called on one message value after another
SpecParse == Init /\ [][NextParse]_vars

\* ------------------------------------------------ the dead-letter queue, called

\* PushMessage calls that stored a record in one behaviour
MaxPush == 3

DlqTopics == {"events", "orders"}

\* what processMessage hands over as payload: string(message.Value) when the
\* parse failed (text, or bytes that are not valid UTF-8), the event map when
\* the processing failed
DlqPayloads ==
    {JStr("not json"), JStr("<FF>")} \cup {v.doc : v \in {w \in LogValues : w.text = "{e4 Refund o1}"}}

\* dlq.PushMessage(ctx, topic, partition, offset, payload, errorMsg)
CallPushMessage(topic, payload) ==
    /\ Len(pushLog) < MaxPush
    /\ LET offset == Len(pushLog)
           res == PushMessage(dlq, redisUp, topic, 0, offset, payload, "boom")
       IN  /\ dlq' = res.dlq
           /\ pushLog' = IF res.err = NoError
                         THEN Append(pushLog,
                                     [topic |-> topic, payload |-> payload,
                                      rec |-> MarshalDlqMsg(DlqMsg(topic, 0, offset, payload, "boom"))])
                         ELSE pushLog
           /\ call' = [fn |-> "PushMessage", arg |-> <<topic, payload>>, out |-> res.err]
    /\ UNCHANGED <<brokerVars, loopVars, redisUp, db, producerVars, applied, brokerUp,
                   readErrors, ledger, sess, hist>>

\* dlq.GetMessages(ctx, topic, start, stop)
CallGetMessages(topic, start, stop) ==
    /\ call' = [fn |-> "GetMessages", arg |-> <<topic, start, stop>>,
                out |-> GetMessages(dlq, redisUp, topic, start, stop)]
    /\ UNCHANGED <<brokerVars, loopVars, dlq, redisUp, db, producerVars, applied, brokerUp,
                   readErrors, ledger, sess, pushLog, hist>>

InitDlq ==
    /\ log = [p \in Partitions |-> <<>>]
    /\ brokerCommitted = [p \in Partitions |-> NoOffset]
    /\ proc = "stopped"
    /\ starts = 0
    /\ pc = "fetch"
    /\ cur = NoMsg
    /\ err = NoError
    /\ readerPos = [p \in Partitions |-> 0]
    /\ pending = [p \in Partitions |-> NoOffset]
    /\ dlq = [t \in DlqTopics |-> <<>>]
    /\ redisUp = TRUE
    /\ db = EmptyDb
    /\ lbBytes = [p \in Partitions |-> 0]
    /\ published = <<>>
    /\ applied = NoneApplied("")
    /\ Quiet
    /\ hist = <<>>

NextDlq ==
    \/ \E topic \in DlqTopics, payload \in DlqPayloads : CallPushMessage(topic, payload)
    \/ \E topic \in DlqTopics, start \in {0, 1}, stop \in {0 - 1, 0, 1} :
           CallGetMessages(topic, start, stop)
    \/ SinkToggle

\* PushMessage and GetMessages called while redis comes and goes
SpecDlq == InitDlq /\ [][NextDlq]_vars

\* ------------------------------------------------- the loop, broker outages

\* errors returned by consumer.ReadMessage in one behaviour
MaxReadErrors == 1

\* the broker goes away or comes back
BrokerToggle ==
    /\ brokerUp' = ~brokerUp
    /\ UNCHANGED <<brokerVars, loopVars, dlq, redisUp, db, producerVars, applied,
                   readErrors, auxVars, hist>>

\* a loop that ends at the first error of ReadMessage
AfterReadErrorExits == "exit"

\* main after consumer.ReadMessage returned an error: log it, continue
AfterReadError == "fetch"

\* consumer.ReadMessage returns an error: the broker cannot be reached
ReadError ==
    /\ proc = "running"
    /\ AtRead
    /\ ~brokerUp
    /\ readErrors < MaxReadErrors
    /\ readErrors' = readErrors + 1
    /\ pc' = AfterReadError
    /\ UNCHANGED <<brokerVars, proc, starts, cur, err, readerPos, pending, dlq, redisUp, db,
                   producerVars, applied, brokerUp, auxVars, hist>>

\* the messages of SpecFetch: one that is dead-lettered, one that is persisted
FetchValues == {v \in LogValues : v.text \in {"not json", "{e1 UserCreated u1 A}"}}

NextFetch ==
    \/ \E p \in Partitions, v \in FetchValues : Produce(p, v)
    \/ BrokerToggle
    \/ ReadError
    \/ Fetch
    \/ Process
    \/ PushDLQ
    \/ Commit
    \/ CommitLoop

\* one run of the consumer loop while the broker comes and goes; the loop of
\* main never pauses, so each of its steps is taken once it stays possible
SpecFetch ==
    /\ InitRunning
    /\ [][NextFetch]_vars
    /\ WF_vars(Fetch)
    /\ WF_vars(Process)
    /\ WF_vars(PushDLQ)
    /\ WF_vars(Commit)

\* ------------------------------------------------ the producer's HTTP handler

\* the event types validateEvent knows
validTypes == {"UserCreated", "OrderPlaced", "PaymentSettled", "InventoryAdjusted"}

\* the data fields validateEvent wants present for an event type
RequiredData(eventType) ==
    CASE eventType = "UserCreated" -> {"userId", "name", "email"}
      [] eventType = "OrderPlaced" -> {"orderId", "userId", "total"}
      [] eventType = "PaymentSettled" -> {"orderId", "status", "amount"}
      [] eventType = "InventoryAdjusted" -> {"sku", "delta"}
      [] OTHER -> {}

\* validateEvent with the set of types it lets through
ValidateWith(event, types) ==
    IF "eventId" \notin DOMAIN event THEN "eventId is required"
    ELSE IF "type" \notin DOMAIN event THEN "type is required"
    ELSE IF "timestamp" \notin DOMAIN event THEN "timestamp is required"
    ELSE IF "data" \notin DOMAIN event THEN "data is required"
    ELSE IF ~IsStr(event["type"]) THEN "type must be a string"
    ELSE IF event["type"].s \notin types THEN "invalid event type"
    ELSE IF ~IsObj(event["data"]) THEN "data must be an object"
    ELSE IF \E f \in RequiredData(event["type"].s) : f \notin DOMAIN event["data"].o
    THEN "data field is required"
    ELSE NoError

\* a validateEvent that lets ProductReview through too
validateEventWithReviews(event) == ValidateWith(event, validTypes \cup {"ProductReview"})

\* validateEvent: the four envelope fields present, type one of validTypes,
\* data an object holding the fields of its type (present, of any JSON type)
validateEvent(event) == ValidateWith(event, validTypes)

\* the error Producer.PublishEvent returns: a map decoded from JSON always
\* marshals; the key must be extractable; the write needs the broker
PublishError(doc, up) ==
    IF extractKey(doc).err # NoError THEN "failed to extract key"
    ELSE IF ~up THEN "failed to write message to Kafka"
    ELSE NoError

\* no response reached the client: the handler panicked, net/http recovered
\* the goroutine and closed the connection
NoResponse == 0

\* handleProduce up to its response: the status, the error of validateEvent and
\* of PublishEvent
Respond(method, v, up) ==
    LET doc == v.doc
        event == IF IsObj(doc) THEN doc.o ELSE <<>>
        invalid == validateEvent(event)
        failed == PublishError(doc, up)
    IN  IF method # "POST" THEN [status |-> 405, invalid |-> "", failed |-> ""]
        ELSE IF doc.tag \notin {"object", "null"} THEN [status |-> 400, invalid |-> "", failed |-> ""]
        ELSE IF invalid # NoError THEN [status |-> 400, invalid |-> invalid, failed |-> ""]
        ELSE IF failed # NoError THEN [status |-> 500, invalid |-> "", failed |-> failed]
        ELSE IF ~IsStr(event["eventId"]) THEN [status |-> NoResponse, invalid |-> "", failed |-> ""]
        ELSE [status |-> 200, invalid |-> "", failed |-> ""]

\* handleProduce serving one request: PublishEvent writes the message when
\* the event passed validateEvent, has a key and the broker is reachable
handleProduce(method, v) ==
    LET res == Respond(method, v, brokerUp)
        wrote == res.status \in {200, NoResponse}
        k == extractKey(v.doc)
        p == LeastBytes(lbBytes, k.key)
    IN  /\ wrote => TotalMsgs < MaxMsgs
        /\ IF wrote
           THEN /\ log' = [log EXCEPT ![p] = Append(@, v)]
                /\ lbBytes' = [lbBytes EXCEPT ![p] = @ + Len(k.key) + Len(v.text)]
                /\ published' = Append(published,
                                       [key |-> k.key, partition |-> p, offset |-> Len(log[p]),
                                        value |-> v])
           ELSE UNCHANGED <<log, lbBytes, published>>
        /\ call' = [fn |-> "handleProduce", arg |-> <<method, v>>, out |-> res]
        /\ UNCHANGED <<brokerCommitted, loopVars, dlq, redisUp, db, applied, brokerUp,
                       readErrors, ledger, sess, pushLog, hist>>

\* a field of a JSON object, or nothing when the value is absent
Absent == [tag |-> "absent"]

Field(k, value) == IF value = Absent THEN <<>> ELSE (k :> value)

\* the field extractKey reads for an event type; an unknown type has none
KeyField(eventType) ==
    CASE eventType \in {"UserCreated"} -> "userId"
      [] eventType \in {"OrderPlaced", "PaymentSettled", "Refund"} -> "orderId"
      [] eventType = "InventoryAdjusted" -> "sku"
      [] OTHER -> "reviewId"

\* the data object holding every field validateEvent and extractKey look at
FullData(eventType) ==
    [f \in RequiredData(eventType) \cup {KeyField(eventType)} |-> JStr("k1")]

\* the data objects of the requests: the full object, then the key field as a
\* number or absent, another field absent; and data that is no object
ProduceData(eventType) ==
    LET full == FullData(eventType)
        key == KeyField(eventType)
        other == CHOOSE f \in DOMAIN full \cup {"name"} : f # key
    IN  { JObj(full),
          JObj([full EXCEPT ![key] = JNum(1)]),
          JObj([f \in DOMAIN full \ {key} |-> full[f]]),
          JObj([f \in DOMAIN full \ {other} |-> full[f]]),
          JStr("k1") }

\* a request body: the envelope with the fields that are not Absent
Body(eventId, type, timestamp, data) ==
    Value("{...}", JObj(Field("eventId", eventId) @@ Field("type", type)
                        @@ Field("timestamp", timestamp) @@ Field("data", data)))

\* the request bodies: bytes that are no JSON, JSON that is no object, a type
\* that is no string and, for each type extractKey knows, the complete
\* envelope and the envelopes that differ from it in one field
ProduceBodies ==
    { Value("not json", Malformed), Value("null", JNull), Value("5", JNum(5)),
      Body(JStr("e1"), JNum(1), JStr("2025-01-01T00:00:00Z"), JObj([userId |-> JStr("k1")])) }
    \cup
    UNION { { Body(eventId, JStr(t), JStr("2025-01-01T00:00:00Z"), JObj(FullData(t))) :
                eventId \in {JStr("e1"), JNum(7), Absent} }
            \cup
            { Body(JStr("e1"), JStr(t), Absent, JObj(FullData(t))) }
            \cup
            { Body(JStr("e1"), JStr(t), JStr("2025-01-01T00:00:00Z"), data) :
                data \in ProduceData(t) } :
            t \in validTypes \cup {"ProductReview"} }

\* the requests: each body posted, and a GET, a PUT and a POST without body
ProduceRequests ==
    { <<"POST", v>> : v \in ProduceBodies }
    \cup
    { <<method, Value("", Malformed)>> : method \in {"GET", "PUT", "POST"} }

NextProduce ==
    \/ \E r \in ProduceRequests : handleProduce(r[1], r[2])
    \/ BrokerToggle

\* POST /produce served request after request while the broker comes and goes
SpecProduce == Init /\ [][NextProduce]_vars

\* ------------------------------------------- the store, rows overwritten

\* users in two versions that differ in every mutable column
LwwUsers ==
    { [user_id |-> k, name |-> n, email |-> n \o "@x.com", created_at |-> t, updated_at |-> t] :
        k \in {"u1", "u2"}, n \in {"A", "B"}, t \in Times }

\* orders of either user in two versions that differ in total and status
LwwOrders ==
    { [order_id |-> k, user_id |-> u, total |-> v.total, status |-> v.status,
       created_at |-> t, updated_at |-> t] :
        k \in {"o1", "o2"}, u \in {"u1", "u2"},
        v \in {[total |-> 10, status |-> "placed"], [total |-> 20, status |-> "paid"]},
        t \in Times }

\* reviews in two versions that differ in every mutable column, and one whose
\* rating the CHECK constraint refuses
LwwReviews ==
    { [review_id |-> k, product_name |-> v.product_name, username |-> v.username,
       rating |-> v.rating, remarks |-> v.remarks, created_at |-> t, updated_at |-> t] :
        k \in {"r1", "r2"},
        v \in {[product_name |-> "p", username |-> "A", rating |-> 1, remarks |-> "ok"],
               [product_name |-> "q", username |-> "B", rating |-> 5, remarks |-> "bad"],
               [product_name |-> "q", username |-> "B", rating |-> 6, remarks |-> "bad"]},
        t \in Times }

InitLww == InitStore /\ applied.target \in {"users", "orders", "reviews"}

NextLww ==
    \/ \E user \in (IF applied.target = "users" THEN LwwUsers ELSE UserRows(applied.target)) :
           ApplyUser(user)
    \/ \E order \in LwwOrders : ApplyOrder(order)
    \/ \E review \in LwwReviews : ApplyReview(review)

\* UpsertUser, UpsertOrder and UpsertProductReview called one after another
\* with entities that differ from the stored rows in every column
SpecLww == InitLww /\ [][NextLww]_vars

\* ------------------------------------- the dead-letter queue, its records

\* payloads PushMessage can be handed: those of processMessage, an event map
\* without eventId, one whose eventId is a number, and a value json.Marshal
\* refuses
RecordPayloads ==
    DlqPayloads
    \cup
    { JObj([type |-> JStr("Refund"), data |-> JObj(<<>>)]),
      JObj([eventId |-> JNum(7), type |-> JStr("Refund"), data |-> JObj(<<>>)]),
      JObj([eventId |-> JStr("e6"), data |-> Unmarshalable]) }

NextRecord ==
    \/ \E payload \in RecordPayloads : CallPushMessage(Topic, payload)
    \/ \E stop \in {0 - 1, 0} : CallGetMessages(Topic, 0, stop)
    \/ SinkToggle

\* PushMessage called with every kind of payload while redis comes and goes
SpecRecord == InitDlq /\ [][NextRecord]_vars

\* ---------------------------------------------------------- the read API

\* orders stored in one behaviour of SpecApi
MaxOrders == 6

\* TOP 5 of GetUserRecentOrders
Top == 5

\* the order ids, in the order the orders are stored
OrderId(n) == <<"o1", "o2", "o3", "o4", "o5", "o6", "o7", "o8", "o9">>[n]

OrderIndex(id) == CHOOSE n \in 1 .. 9 : OrderId(n) = id

\* ORDER BY created_at: row a comes before row b.  Rows of equal created_at
\* come in an order the server is free to choose: here by the order stored,
\* forwards or backwards (tie)
Before(a, b, tie, desc) ==
    \/ IF desc THEN a.created_at > b.created_at ELSE a.created_at < b.created_at
    \/ /\ a.created_at = b.created_at
       /\ IF tie = "asc" THEN OrderIndex(a.order_id) < OrderIndex(b.order_id)
          ELSE OrderIndex(a.order_id) > OrderIndex(b.order_id)

\* SELECT TOP 5 ... FROM orders WHERE user_id = ? ORDER BY created_at
Select(orders, userID, tie, desc) ==
    LET mine == {r \in orders : r.user_id = userID}
        rank(r) == Cardinality({x \in mine : Before(x, r, tie, desc)})
        n == IF Cardinality(mine) < Top THEN Cardinality(mine) ELSE Top
    IN  [i \in 1 .. n |-> CHOOSE r \in mine : rank(r) = i - 1]

\* the query with ORDER BY created_at ASC
GetUserRecentOrdersOldestFirst(orders, userID, tie) == Select(orders, userID, tie, FALSE)

\* MSSQLStore.GetUserRecentOrders
GetUserRecentOrders(orders, userID, tie) == Select(orders, userID, tie, TRUE)

\* no row: GetUser returns nil, nil
NoUser == <<>>

\* MSSQLStore.GetUser: the row of the user, or nil on sql.ErrNoRows
GetUser(users, userID) ==
    IF HasKey(users, "user_id", userID)
    THEN CHOOSE r \in users : r.user_id = userID
    ELSE NoUser

\* handleGetUser: the status and the body it writes; failing names the
\* query the database fails ("" for none)
UserResponse(method, userID, tables, failing, tie) ==
    LET user == GetUser(tables.users, userID)
        none == [status |-> 0, user |-> NoUser, recentOrders |-> <<>>]
    IN  IF method # "GET" THEN [none EXCEPT !.status = 405]
        ELSE IF userID = "" THEN [none EXCEPT !.status = 400]
        ELSE IF failing = "GetUser" THEN [none EXCEPT !.status = 500]
        ELSE IF user = NoUser THEN [none EXCEPT !.status = 404]
        ELSE IF failing = "GetUserRecentOrders" THEN [none EXCEPT !.status = 500]
        ELSE [status |-> 200, user |-> user,
              recentOrders |-> GetUserRecentOrders(tables.orders, userID, tie)]

\* GET /users/{id} served
handleGetUser(method, userID, failing, tie) ==
    /\ call' = [fn |-> "handleGetUser", arg |-> <<method, userID, failing>>,
                out |-> UserResponse(method, userID, db, failing, tie)]
    /\ UNCHANGED <<brokerVars, loopVars, dlq, redisUp, db, producerVars, applied, brokerUp,
                   readErrors, ledger, sess, pushLog, hist>>

\* the consumer stores the next order: of u1 at either time, or of u2
StoreOrder(userID, t) ==
    /\ Cardinality(db.orders) < MaxOrders
    /\ LET order == [order_id |-> OrderId(Cardinality(db.orders) + 1), user_id |-> userID,
                     total |-> 10, status |-> "placed", created_at |-> t, updated_at |-> t]
           res == UpsertOrder(db.orders, db.users, order)
       IN  /\ res.err = NoError
           /\ db' = [db EXCEPT !.orders = res.rows]
    /\ UNCHANGED <<brokerVars, loopVars, dlq, redisUp, producerVars, applied, brokerUp,
                   readErrors, auxVars, hist>>

\* the database when the API starts to serve: users u1 and u2 stored
InitApi ==
    /\ log = [p \in Partitions |-> <<>>]
    /\ brokerCommitted = [p \in Partitions |-> NoOffset]
    /\ proc = "stopped"
    /\ starts = 0
    /\ pc = "fetch"
    /\ cur = NoMsg
    /\ err = NoError
    /\ readerPos = [p \in Partitions |-> 0]
    /\ pending = [p \in Partitions |-> NoOffset]
    /\ dlq = [t \in {Topic} |-> <<>>]
    /\ redisUp = TRUE
    /\ db = [EmptyDb EXCEPT !.users =
               {[user_id |-> u, name |-> "A", email |-> "a@x.com", created_at |-> TimeNow,
                 updated_at |-> TimeNow] : u \in {"u1", "u2"}}]
    /\ lbBytes = [p \in Partitions |-> 0]
    /\ published = <<>>
    /\ applied = NoneApplied("")
    /\ Quiet
    /\ hist = <<>>

\* the requests: GET for a user with orders, for another, for one without
\* row, without id, and a POST
UserRequests ==
    { <<"GET", "u1">>, <<"GET", "u2">>, <<"GET", "u3">>, <<"GET", "">>, <<"POST", "u1">> }

NextApi ==
    \/ \E o \in {<<"u1", 1>>, <<"u1", 2>>, <<"u2", 1>>} : StoreOrder(o[1], o[2])
    \/ \E r \in UserRequests, failing \in {"", "GetUser", "GetUserRecentOrders"},
          tie \in {"asc", "desc"} : handleGetUser(r[1], r[2], failing, tie)

\* GET /users/{id} served while the consumer stores orders
SpecApi == InitApi /\ [][NextApi]_vars

\* ------------------------------------------------- claims on the consumer

Same(d, e) == d[1] = e[1] /\ d[2] = e[2]

\* the delivery reached a terminal outcome: persisted, or a dead-letter push
\* was attempted
Terminal(d) == hist[d].persisted \/ hist[d].attempts >= 1

CommittedAtBroker(d) ==
    brokerCommitted[d[1]] # NoOffset /\ d[2] < brokerCommitted[d[1]]

\* C1: the offset of a fetched envelope is committed only after the envelope
\* reached a terminal outcome (persisted, or dead-letter push attempted): no
\* state has the offset of a fetched envelope committed while no delivery of
\* it has an outcome.
C1_CommitOnlyAfterOutcome ==
    \A d \in DOMAIN hist :
        CommittedAtBroker(d) => \E e \in DOMAIN hist : Same(d, e) /\ Terminal(e)

\* C2: a message fetched in an earlier run for which CommitMessage was never
\* called is delivered again after the restart: the restarted reader stands at
\* or before it until it has delivered it.
C2_RedeliveredAfterCrash ==
    proc = "running" =>
        \A d \in DOMAIN hist :
            ( /\ d[3] < starts
              /\ \A e \in DOMAIN hist : Same(d, e) => hist[e].commits = 0
              /\ <<d[1], d[2], starts>> \notin DOMAIN hist )
            => readerPos[d[1]] <= d[2]

C4_OneDeadLetterPerFailure ==
    \A d \in DOMAIN hist :
        hist[d].fin # "no" =>
            IF hist[d].failure # ""
            THEN /\ hist[d].commits >= 1
                 /\ hist[d].pushed = (IF hist[d].sink THEN 1 ELSE 0)
            ELSE hist[d].pushed = 0

PushFailed(d) == hist[d].attempts >= 1 /\ hist[d].pushed = 0

\* C5: after a dead-letter push that failed, the loop is at the commit of that
\* envelope or has committed it and returned to fetch: the failure never ends
\* or stalls the processing of the envelope.
C5_SinkOutageDoesNotBlockCommit ==
    \A d \in DOMAIN hist :
        PushFailed(d) =>
            \/ cur = <<d[1], d[2]>> /\ pc = "commitErr" /\ proc = "running"
            \/ hist[d].commits = 1 /\ hist[d].fin = "returned"

\* a failed push, its envelope committed, and the next envelope of the
\* partition delivered
C5_Witness ==
    \E d \in DOMAIN hist : \E e \in DOMAIN hist :
        /\ PushFailed(d) /\ hist[d].commits = 1
        /\ e[1] = d[1] /\ e[2] > d[2]

\* C6: within one run CommitMessage is invoked at most once for a fetched
\* envelope, on the success path and on the dead-letter path.
C6_NoDoubleCommit ==
    \A d \in DOMAIN hist : hist[d].commits <= 1

\* one envelope committed after being persisted, one after being dead-lettered
C6_Witness ==
    \E d \in DOMAIN hist : \E e \in DOMAIN hist :
        /\ hist[d].persisted /\ hist[d].commits = 1
        /\ hist[e].failure # "" /\ hist[e].attempts = 1 /\ hist[e].commits = 1

DeliveredOf(i) == <<published[i].partition, published[i].offset, starts>>

\* C8: two events with the same business key published one after the other are
\* in the same partition, and the later is not delivered before the earlier.
C8_SameKeySamePartition ==
    \A i \in DOMAIN published : \A j \in DOMAIN published :
        (i < j /\ published[i].key = published[j].key) =>
            /\ published[i].partition = published[j].partition
            /\ (DeliveredOf(j) \in DOMAIN hist => DeliveredOf(i) \in DOMAIN hist)

\* every published event was delivered, its processing returned, its offset is
\* committed at the broker
AllCommitted ==
    /\ published # <<>>
    /\ \A i \in DOMAIN published :
           /\ DeliveredOf(i) \in DOMAIN hist
           /\ hist[DeliveredOf(i)].fin = "returned"
           /\ CommittedAtBroker(DeliveredOf(i))

IsUserCreated(i) == published[i].value.doc.o["type"].s = "UserCreated"

\* C9: once all published envelopes of a key are committed, the user row of
\* the key holds the name of the last UserCreated envelope published for it.
C9_LastEnvelopeWins ==
    AllCommitted =>
        \A i \in DOMAIN published :
            ( /\ IsUserCreated(i)
              /\ \A j \in DOMAIN published :
                     (IsUserCreated(j) /\ published[j].key = published[i].key) => j <= i )
            => \E r \in db.users :
                   /\ r.user_id = published[i].key
                   /\ r.name = published[i].value.doc.o["data"].o["name"].s

\* ---------------------------------------------------- claims on the store

PkOf == [users |-> "user_id", orders |-> "order_id", payments |-> "order_id",
         reviews |-> "review_id"]

\* the rows stored under the primary key of the entity last applied
StoredFor ==
    {r \in db[applied.table] : r[PkOf[applied.table]] = applied.entity[PkOf[applied.table]]}

C11_TwiceAddsTwice ==
    \A i \in DOMAIN ledger : \A j \in DOMAIN ledger :
        (j = i + 1 /\ ledger[i].inv = ledger[j].inv) =>
            /\ ledger[i].err = NoError /\ ledger[j].err = NoError
            /\ ledger[j].after = ledger[i].before + 2 * ledger[i].inv.quantity
            /\ ledger[i].inv.quantity # 0 =>
                   ledger[j].after # ledger[i].before + ledger[i].inv.quantity

\* the same record three times over the empty table: the first call created
\* the row, the second and third met it
C11_Witness ==
    /\ Len(ledger) = 3
    /\ ledger[1].inv = ledger[2].inv /\ ledger[2].inv = ledger[3].inv
    /\ ~ledger[1].met
    /\ ledger[2].met

RECURSIVE SumDeltas(_, _)
\* the sum of the deltas of the first n calls that were for the sku
SumDeltas(sku, n) ==
    IF n = 0 THEN 0
    ELSE SumDeltas(sku, n - 1) + (IF ledger[n].inv.sku = sku THEN ledger[n].inv.quantity ELSE 0)

\* the calls for the sku, by position
CallsFor(sku) == {i \in DOMAIN ledger : ledger[i].inv.sku = sku}

\* C12: after any sequence of UpsertInventory calls, the quantity of each
\* adjusted sku is its quantity before the first call for it (0 when it had no
\* row) plus the signed sum of the deltas of the calls for it.
C12_QuantityIsInitialPlusSum ==
    \A sku \in {"S1", "S2"} :
        CallsFor(sku) # {} =>
            LET first == CHOOSE i \in CallsFor(sku) : \A k \in CallsFor(sku) : i <= k
            IN  /\ ~ledger[first].met => ledger[first].before = 0
                /\ QuantityOf(db.inventory, sku) =
                       ledger[first].before + SumDeltas(sku, Len(ledger))

\* deltas 5 and -2 for the stocked sku: 10 + 3
C12_Witness ==
    /\ Len(ledger) = 2
    /\ ledger[1].inv.sku = "S1" /\ ledger[1].inv.quantity = 5 /\ ledger[1].met
    /\ ledger[2].inv.sku = "S1" /\ ledger[2].inv.quantity = 0 - 2
    /\ QuantityOf(db.inventory, "S1") = ledger[1].before + 3
    /\ ledger[1].before = 10

\* ------------------------------------------ claims on concurrent Upserts

\* C13: of two Upsert calls for the same primary key that run concurrently,
\* both return without error and exactly one row for the key exists after
\* them.
C13_ConcurrentUpsertsBothSucceed ==
    \A s \in Sessions : \A t \in Sessions :
        ( /\ s # t
          /\ sess[s].pc = "done" /\ sess[t].pc = "done"
          /\ sess[s].table = sess[t].table
          /\ sess[s].entity[RaceKey[sess[s].table]] = sess[t].entity[RaceKey[sess[t].table]] )
        => /\ sess[s].err = NoError /\ sess[t].err = NoError
           /\ Cardinality({r \in db[sess[s].table] :
                             r[RaceKey[sess[s].table]] =
                                 sess[s].entity[RaceKey[sess[s].table]]}) = 1

\* ---------------------------------------------------- claims on ParseEvent

\* C14: ParseEvent returns an envelope exactly when the value is a JSON object
\* that holds all four top-level fields eventId, type, timestamp and data, and
\* an error otherwise; the envelope returned is the object.
C14_ParseEventRequiresFourFields ==
    call.fn = "ParseEvent" =>
        LET doc == call.arg.doc
            complete == IsObj(doc) /\ EnvelopeFields \subseteq DOMAIN doc.o
        IN  /\ call.out.err = NoError <=> complete
            /\ call.out.err = NoError => call.out.event = doc.o

\* --------------------------------------- claims on the dead-letter queue

RECURSIVE PushedTo(_, _)
\* the records of the first n successful pushes that were for the topic,
\* newest first
PushedTo(topic, n) ==
    IF n = 0 THEN <<>>
    ELSE IF pushLog[n].topic = topic THEN <<pushLog[n].rec>> \o PushedTo(topic, n - 1)
    ELSE PushedTo(topic, n - 1)

\* C15: GetMessages(topic, 0, -1) returns the records pushed for the topic,
\* all of them and no other, newest first; GetMessages(topic, 0, n) returns
\* the n+1 newest of them (all of them when there are fewer).
C15_NewestFirst ==
    (call.fn = "GetMessages" /\ call.out.err = NoError /\ call.arg[2] = 0) =>
        LET all == PushedTo(call.arg[1], Len(pushLog))
            stop == call.arg[3]
        IN  IF stop = 0 - 1 \/ stop + 1 >= Len(all)
            THEN call.out.msgs = all
            ELSE call.out.msgs = SubSeq(all, 1, stop + 1)

\* three records pushed for the topic, GetMessages(topic, 0, 1) returned two
C15_Witness ==
    /\ call.fn = "GetMessages"
    /\ call.arg = <<"events", 0, 1>>
    /\ Len(PushedTo("events", Len(pushLog))) = 3
    /\ Len(call.out.msgs) = 2
    /\ call.out.msgs[1].offset > call.out.msgs[2].offset

\* C17: the payload field of every stored record, decoded, is the payload that
\* was handed to PushMessage: the message bytes as a string when the parse
\* failed, the event map otherwise.
C17_PayloadRoundTrip ==
    \A i \in DOMAIN pushLog :
        \E j \in DOMAIN dlq[pushLog[i].topic] :
            /\ dlq[pushLog[i].topic][j].offset = pushLog[i].rec.offset
            /\ dlq[pushLog[i].topic][j].payload = pushLog[i].payload

\* C16: every step leaves each dead-letter list as it was or puts exactly one
\* record in front of it, the earlier records unchanged; and every delivery
\* whose processing ended in a failure has exactly one record pushed for it
\* (the sink being available).
C16_AppendOnlyOncePerFailure ==
    /\ [][\A t \in DOMAIN dlq :
              \/ dlq'[t] = dlq[t]
              \/ Len(dlq'[t]) = Len(dlq[t]) + 1 /\ Tail(dlq'[t]) = dlq[t]]_vars
    /\ [](\A d \in DOMAIN hist :
              (hist[d].failure # "" /\ hist[d].fin # "no" /\ hist[d].sink) => hist[d].pushed = 1)

\* ------------------------------------- claims on orders without their user

IsOrderPlaced(d) ==
    LET doc == log[d[1]][d[2] + 1].doc
    IN  IsObj(doc) /\ Get(doc.o, "type") = JStr("OrderPlaced")

OrderData(d) == log[d[1]][d[2] + 1].doc.o["data"].o

Processed(d) == hist[d].failure # "" \/ hist[d].persisted

\* C18: a step of processMessage that ends in an error leaves the tables as
\* they were; and an OrderPlaced envelope processed while its user has no row
\* failed in persistence, left no order row, was not persisted; when
\* processMessage has returned for it, one dead-letter push was attempted, its
\* offset was committed once and the reader is past it (it is not processed
\* again); until then it is the message in flight on the dead-letter path.
C18_OrderWithoutUserDeadLettered ==
    /\ [][(pc = "process" /\ pc' = "dlq") => db' = db]_vars
    /\ [](\A d \in DOMAIN hist :
              ( /\ IsOrderPlaced(d)
                /\ Processed(d)
                /\ ~HasKey(db.users, "user_id", OrderData(d)["userId"].s) )
              => /\ hist[d].failure = "persistence"
                 /\ ~hist[d].persisted
                 /\ ~HasKey(db.orders, "order_id", OrderData(d)["orderId"].s)
                 /\ IF hist[d].fin = "returned"
                    THEN /\ hist[d].attempts = 1
                         /\ hist[d].commits = 1
                         /\ readerPos[d[1]] > d[2]
                    ELSE /\ cur = <<d[1], d[2]>>
                         /\ pc \in {"dlq", "commitErr"})

\* an order without its user: dead-lettered, committed, no order row
C18_Witness ==
    \E d \in DOMAIN hist :
        /\ IsOrderPlaced(d)
        /\ hist[d].failure = "persistence"
        /\ hist[d].fin = "returned"
        /\ hist[d].pushed = 1
        /\ hist[d].commits = 1
        /\ db.orders = {}
        /\ Len(dlq[Topic]) = 1
        /\ dlq[Topic][1].error = FkViolation

\* ------------------------------------------------ claims on fetch failures

\* every message of the topic was delivered in this run and processMessage
\* has returned for it
AllProcessed ==
    \A p \in Partitions : \A o \in 0 .. (Len(log[p]) - 1) :
        /\ <<p, o, starts>> \in DOMAIN hist
        /\ hist[<<p, o, starts>>].fin = "returned"

\* C19: a step in which ReadMessage returns an error pushes no dead-letter
\* record, commits nothing, touches no delivery and no table, and leaves the
\* loop at ReadMessage; and if the broker ends up reachable for good, every
\* message of the topic is eventually fetched and processed.
C19_FetchFailureRetried ==
    /\ [][readErrors' # readErrors =>
              /\ dlq' = dlq /\ pending' = pending /\ brokerCommitted' = brokerCommitted
              /\ hist' = hist /\ db' = db /\ readerPos' = readerPos
              /\ pc' = "fetch" /\ proc' = "running"]_vars
    /\ (<>[]brokerUp) => []<>AllProcessed

\* ReadMessage failed, then the first message of the topic was fetched
C19_Witness ==
    /\ readErrors >= 1
    /\ pc = "process"
    /\ Cardinality(DOMAIN hist) = 1
    /\ dlq[Topic] = <<>>
    /\ \A p \in Partitions : pending[p] = NoOffset \/ cur[1] = p

\* ---------------------------------------------------- claims on shutdown

\* C20: when the loop has been stopped, processMessage has returned for every
\* envelope fetched in the run: none is left in flight, none was dead-lettered
\* without its offset committed, none was committed without a terminal outcome.
C20_ShutdownFinishesInFlight ==
    proc = "killed" =>
        \A d \in DOMAIN hist :
            d[3] = starts =>
                /\ hist[d].fin = "returned"
                /\ hist[d].pushed >= 1 => hist[d].commits >= 1
                /\ hist[d].commits >= 1 => Terminal(d)

\* ------------------------------------------ claims on crashes and the DLQ

\* the delivery's dead-letter push succeeded and the process died before
\* CommitMessage was called for it
DiedAfterPush(d) ==
    /\ hist[d].pushed >= 1
    /\ hist[d].commits = 0
    /\ d[3] < starts

\* the records of the list of Topic stored for the message of delivery d
RecordsOf(d) ==
    {i \in 1 .. Len(dlq[Topic]) :
        /\ dlq[Topic][i].partition = d[1]
        /\ dlq[Topic][i].offset = d[2]}

\* C21: when the process died between a successful dead-letter push and the
\* commit of the same envelope, the next run delivers the message again (its
\* reader stands at or before it until it has) and, once that delivery has
\* pushed too, the list holds two records of the same eventId and offset.
C21_CrashAfterPushDuplicates ==
    proc = "running" =>
        \A d \in DOMAIN hist :
            (DiedAfterPush(d) /\ d[3] + 1 = starts) =>
                LET again == <<d[1], d[2], starts>>
                IN  /\ again \notin DOMAIN hist => readerPos[d[1]] <= d[2]
                    /\ (again \in DOMAIN hist /\ hist[again].pushed >= 1) =>
                           \E i \in RecordsOf(d) : \E j \in RecordsOf(d) :
                               i # j /\ dlq[Topic][i].eventId = dlq[Topic][j].eventId

\* the case the claim describes does happen when the group has a committed
\* offset at or before the message and nothing was flushed in between
C21_DuplicateSeen ==
    \E d \in DOMAIN hist :
        /\ DiedAfterPush(d)
        /\ <<d[1], d[2], starts>> \in DOMAIN hist
        /\ hist[<<d[1], d[2], starts>>].pushed >= 1
        /\ Cardinality(RecordsOf(d)) = 2

\* ------------------------------------------- claims on the HTTP producer

\* the request handleProduce served last
Served == call.fn = "handleProduce"

ServedEvent == IF IsObj(call.arg[2].doc) THEN call.arg[2].doc.o ELSE <<>>

TypeOf(event) == IF IsStr(Get(event, "type")) THEN event["type"].s ELSE ""

\* C22: the producer accepts exactly the four event types: validateEvent
\* returns no error only for them, a POST whose type is any other string
\* (ProductReview included) is answered 400, and no message of another type is
\* in the log.
C22_OnlyFourTypesAccepted ==
    /\ \A v \in ProduceBodies :
           IsObj(v.doc) =>
               (validateEvent(v.doc.o) = NoError => TypeOf(v.doc.o) \in validTypes)
    /\ (Served /\ call.arg[1] = "POST" /\ IsStr(Get(ServedEvent, "type"))
          /\ TypeOf(ServedEvent) \notin validTypes) => call.out.status = 400
    /\ \A p \in Partitions : \A i \in 1 .. Len(log[p]) :
           TypeOf(log[p][i].doc.o) \in validTypes

\* a ProductReview event that extractKey can key, complete in every field, was
\* posted and answered 400 for its type, after an event of a valid type was
\* written
C22_Witness ==
    /\ Served /\ call.arg[1] = "POST"
    /\ TypeOf(ServedEvent) = "ProductReview"
    /\ extractKey(call.arg[2].doc).err = NoError
    /\ call.out.status = 400 /\ call.out.invalid = "invalid event type"
    /\ TotalMsgs >= 1

\* ------------------------------------------- claims on overwritten rows

\* the rows of table t stored under the primary key of entity
RowsOf(tables, t, entity) == {r \in tables[t] : r[PkOf[t]] = entity[PkOf[t]]}

\* an Upsert that met a row of its primary key and returned no error
Overwrites ==
    /\ applied'.err = NoError
    /\ RowsOf(db, applied'.table, applied'.entity) # {}

\* what such an Upsert leaves
LastWriteWins ==
    LET t == applied'.table
        entity == applied'.entity
        old == RowsOf(db, t, entity)
        new == RowsOf(db', t, entity)
    IN  /\ Cardinality(new) = 1
        /\ \A r \in new :
               /\ \A c \in DOMAIN entity \ {"created_at"} : r[c] = entity[c]
               /\ r.created_at \in {x.created_at : x \in old}
        /\ db'[t] \ new = db[t] \ old
        /\ \A u \in DOMAIN db \ {t} : db'[u] = db[u]

\* C23: an Upsert of a User, Order or ProductReview on an existing primary key
\* leaves one row of that key holding the new entity's value in every mutable
\* column and the created_at the row had, and leaves every other row of the
\* table and every other table as they were.
C23_LastWriteWinsOnMutableFields == [][Overwrites => LastWriteWins]_vars

\* an order stored with other values in every mutable column and another
\* created_at was overwritten, next to an order of another key
C23_Witness ==
    /\ applied.table = "orders"
    /\ applied.err = NoError
    /\ applied.created # {}
    /\ applied.entity.created_at \notin applied.created
    /\ \E r \in db.orders : r.order_id # applied.entity.order_id
    /\ \E r \in StoredFor :
           /\ r.total = 20 /\ r.status = "paid" /\ r.user_id = "u2"
           /\ r.updated_at # r.created_at

\* ------------------------------------- claims on events of different keys

\* published[j] is an OrderPlaced event that references the user of the
\* UserCreated event published[i]
OrderOfUser(i, j) ==
    /\ IsUserCreated(i)
    /\ published[j].value.doc.o["type"].s = "OrderPlaced"
    /\ published[j].value.doc.o["data"].o["userId"].s = published[i].key

\* C24: an OrderPlaced event published after the UserCreated event of the
\* user it references is never processed before that event was persisted: its
\* delivery never fails in persistence and is not dead-lettered.
C24_OrderAfterUserPersisted ==
    \A i \in DOMAIN published : \A j \in DOMAIN published :
        (i < j /\ OrderOfUser(i, j) /\ DeliveredOf(j) \in DOMAIN hist) =>
            /\ hist[DeliveredOf(j)].failure # "persistence"
            /\ hist[DeliveredOf(j)].pushed = 0

\* ------------------------------------- claims on the dead-letter records

\* C25: a step of PushMessage for a topic leaves the list of every other
\* topic as it was; every record stored under dlq:<topic> was pushed for that
\* topic; and GetMessages(topic, ...) returns records of that topic only, each
\* of them out of the list of the topic.
C25_ListsIsolatedPerTopic ==
    /\ [][call'.fn = "PushMessage" =>
            \A t \in DlqTopics \ {call'.arg[1]} : dlq'[t] = dlq[t]]_vars
    /\ [](\A t \in DlqTopics : \A i \in DOMAIN dlq[t] : dlq[t][i].topic = t)
    /\ []((call.fn = "GetMessages" /\ call.out.err = NoError) =>
            \A i \in DOMAIN call.out.msgs :
                /\ call.out.msgs[i].topic = call.arg[1]
                /\ \E j \in DOMAIN dlq[call.arg[1]] : dlq[call.arg[1]][j] = call.out.msgs[i])

\* records pushed for both topics, GetMessages of one topic returned its own
C25_Witness ==
    /\ call.fn = "GetMessages"
    /\ call.arg = <<"orders", 0, 0 - 1>>
    /\ Len(call.out.msgs) = 1
    /\ Len(dlq["events"]) = 2
    /\ Len(dlq["orders"]) = 1

\* C26: a PushMessage that fails (the record cannot be marshalled, or redis
\* cannot be reached for the LPUSH) returns an error, and a PushMessage that
\* returns an error leaves every dead-letter list as it was.
C26_FailedPushStoresNothing ==
    [][call'.fn = "PushMessage" /\ call' # call =>
         /\ (MarshalFails(call'.arg[2]) \/ ~redisUp) => call'.out # NoError
         /\ call'.out # NoError => dlq' = dlq]_vars

\* one push failed in json.Marshal while redis was reachable and a record was
\* in the list
C26_Witness ==
    /\ call.fn = "PushMessage"
    /\ MarshalFails(call.arg[2])
    /\ call.out = "failed to marshal DLQ message"
    /\ redisUp
    /\ Len(dlq[Topic]) = 2

\* C27: every stored record carries the topic, partition, offset and error
\* text PushMessage was called with, and as eventId the payload's eventId when
\* the payload is a map with a string under eventId, "unknown" otherwise.
C27_RecordFields ==
    /\ Len(dlq[Topic]) = Len(pushLog)
    /\ \A i \in DOMAIN pushLog :
           LET rec == dlq[Topic][Len(pushLog) + 1 - i]
               payload == pushLog[i].payload
           IN  /\ rec.topic = pushLog[i].topic
               /\ rec.partition = 0
               /\ rec.offset = i - 1
               /\ rec.error = "boom"
               /\ rec.eventId =
                      IF payload.tag = "object" /\ "eventId" \in DOMAIN payload.o
                         /\ payload.o["eventId"].tag = "string"
                      THEN payload.o["eventId"].s
                      ELSE "unknown"

\* records of an event map with eventId e4, of one with a number as eventId
\* and of raw bytes are in the list
C27_Witness ==
    /\ Len(dlq[Topic]) = 3
    /\ \E i \in DOMAIN dlq[Topic] : dlq[Topic][i].eventId = "e4"
    /\ \E i \in DOMAIN dlq[Topic] :
           /\ dlq[Topic][i].eventId = "unknown"
           /\ dlq[Topic][i].payload.tag = "object"
           /\ "eventId" \in DOMAIN dlq[Topic][i].payload.o
    /\ \E i \in DOMAIN dlq[Topic] :
           dlq[Topic][i].eventId = "unknown" /\ dlq[Topic][i].payload.tag = "string"

\* C28: a posted event that validateEvent accepts has a key: extractKey
\* returns the string under the key field of its type without error, and
\* PublishEvent returns an error for it only when the write failed.
C28_AcceptedEventsHaveKey ==
    (Served /\ call.arg[1] = "POST" /\ IsObj(call.arg[2].doc)
       /\ validateEvent(ServedEvent) = NoError) =>
        LET k == extractKey(call.arg[2].doc)
            data == ServedEvent["data"].o
        IN  /\ k.err = NoError
            /\ JStr(k.key) = data[KeyField(TypeOf(ServedEvent))]
            /\ call.out.failed \in {NoError, "failed to write message to Kafka"}

\* C29: handleProduce answers 200 exactly when the event was written: a
\* request whose PublishEvent succeeded is answered 200, and a request answered
\* 400, 405 or 500, or not answered, wrote nothing to the log.
C29_OkIffWritten ==
    [][call'.fn = "handleProduce" /\ call' # call =>
         /\ log' # log => call'.out.status = 200
         /\ call'.out.status # 200 => log' = log]_vars

\* ---------------------------------------------------- claims on the read API

\* the orders of the user that the response leaves out
LeftOut(orders, userID, shown) ==
    {r \in orders : r.user_id = userID /\ \A i \in DOMAIN shown : shown[i] # r}

\* what a response to GET /users/{id} must be, given the tables
UserAnswer(out, method, userID, failing, tables) ==
    LET shown == out.recentOrders
    IN  /\ out.status = 404 <=>
               /\ method = "GET" /\ userID # "" /\ failing # "GetUser"
               /\ ~HasKey(tables.users, "user_id", userID)
        /\ (method = "GET" /\ userID # "" /\ failing = ""
              /\ HasKey(tables.users, "user_id", userID)) =>
               /\ out.status = 200
               /\ out.user \in tables.users /\ out.user.user_id = userID
               /\ Len(shown) <= 5
               /\ \A i \in DOMAIN shown : shown[i] \in tables.orders /\ shown[i].user_id = userID
               /\ \A i \in DOMAIN shown : \A j \in DOMAIN shown :
                      /\ i < j => shown[i].created_at >= shown[j].created_at
                      /\ i # j => shown[i] # shown[j]
               /\ \A r \in LeftOut(tables.orders, userID, shown) :
                      /\ Len(shown) = 5
                      /\ \A i \in DOMAIN shown : shown[i].created_at >= r.created_at

\* C30: GET /users/{id} answers 404 exactly when GetUser found no row of the
\* id; when the row exists and no query fails it answers with the user and at
\* most 5 orders of the user, none left out having a greater created_at than
\* one returned, in descending created_at order; and it changes no table.
C30_UserWithRecentOrders ==
    [][call'.fn = "handleGetUser" /\ call' # call =>
         /\ UserAnswer(call'.out, call'.arg[1], call'.arg[2], call'.arg[3], db)
         /\ db' = db]_vars

\* six orders of u1 stored, older and newer ones, and one of u2: the five
\* returned leave an older one out
C30_Witness ==
    /\ call.fn = "handleGetUser"
    /\ call.arg = <<"GET", "u1", "">>
    /\ call.out.status = 200
    /\ Len(call.out.recentOrders) = 5
    /\ call.out.recentOrders[1].created_at = 2
    /\ call.out.recentOrders[5].created_at = 1
    /\ Cardinality(LeftOut(db.orders, "u1", call.out.recentOrders)) >= 1

====
